---------------------------- MODULE Spec2Model ----------------------------
(***************************************************************************)
(* Model of Ch03_CNN/Ex03A/plotting_cnn.py: plot_image and plot_channels,  *)
(* two wrappers over matplotlib.pyplot.  The state is pyplot's process-    *)
(* wide figure registry (the open figures, the last one being current),    *)
(* the figure objects, and each calling thread's position and locals.      *)
(* One action per statement of the source.                                 *)
(***************************************************************************)
EXTENDS Naturals, Sequences, FiniteSets, TLC

\* ---------------------------------------------------------------- bounds
MaxDim == 2
MaxChannels == 2
MaxFigs == 2

AllThreads == {1, 2}

VARIABLES
    heap,    \* figure objects alive: id -> figure record
    open,    \* pyplot's registry: ids of the open figures, current one last
    pc,      \* per thread: the statement about to run
    fn,      \* per thread: the function being called
    arg,     \* per thread: the array passed in, as it is in memory now
    arg0,    \* per thread: the array as it was when the call started
    axs,     \* per thread: plot_channels' local axs (what plt.subplots returned)
    iter,    \* per thread: items the zip of plot_channels has produced
    err,     \* per thread: the exception propagating out of the call
    trace    \* per thread: backend calls made by the call in flight, in order

vars == <<heap, open, pc, fn, arg, arg0, axs, iter, err, trace>>

\* ---------------------------------------------------------------- arrays
\* A numpy array: its shape tuple and its items, nested one level per axis.
Pixel(k, r, c) == (k * 7 + r * 3 + c) % 256

Vector1D(C, k) == [shape |-> <<C>>, data |-> [c \in 1..C |-> Pixel(k, 1, c)]]

Image2D(R, C, k) ==
    [shape |-> <<R, C>>,
     data |-> [r \in 1..R |-> [c \in 1..C |-> Pixel(k, r, c)]]]

Stack2D(N, R) ==
    [shape |-> <<N, R>>, data |-> [k \in 1..N |-> Vector1D(R, k).data]]

Stack3D(N, R, C) ==
    [shape |-> <<N, R, C>>, data |-> [k \in 1..N |-> Image2D(R, C, k).data]]

\* What callers pass to plot_image: 2-D images, and 1-D arrays (too few axes).
ImageArgs ==
    {Image2D(R, C, 0) : R \in 1..MaxDim, C \in 1..MaxDim}
        \cup {Vector1D(C, 0) : C \in 1..MaxDim}

\* What callers pass to plot_channels: 3-D stacks of 0..MaxChannels channels,
\* and 2-D arrays (too few axes).
ChannelArgs ==
    {Stack3D(N, R, C) : N \in 0..MaxChannels, R \in 1..MaxDim, C \in 1..MaxDim}
        \cup {Stack2D(N, R) : N \in 0..MaxChannels, R \in 1..MaxDim}

NoArray == [shape |-> <<>>, data |-> <<>>]

\* a.shape[k], k counted from 0 as in Python; IndexError when HasDim fails.
HasDim(a, k) == k < Len(a.shape)

ShapeAt(a, k) == a.shape[k + 1]

\* The k-th item (from 0) an iteration over the first axis of a yields.
Item(a, k) == [shape |-> Tail(a.shape), data |-> a.data[k + 1]]

\* range(lo, hi)
PyRange(lo, hi) == [j \in 1..(IF hi > lo THEN hi - lo ELSE 0) |-> lo + j - 1]

Min(a, b) == IF a <= b THEN a ELSE b

\* ---------------------------------------------------------------- backend
BlankAxes ==
    [hasImage |-> FALSE, image |-> <<>>, cmap |-> "", aspect |-> "auto",
     extent |-> <<>>, grid |-> <<>>, title |-> "", xticks |-> <<>>,
     yticks |-> <<>>]

NewFigure(t) ==
    [owner |-> t, axes |-> <<>>, cur |-> 0, tight |-> FALSE, shown |-> FALSE]

NewId(h) ==
    CHOOSE id \in 1..(Cardinality(DOMAIN h) + 1) :
        id \notin DOMAIN h /\ \A j \in 1..(id - 1) : j \in DOMAIN h

Last(s) == s[Len(s)]

\* pyplot.gcf(): the current figure, a new one when no figure is open.
Gcf(h, o, t) ==
    IF o = <<>>
    THEN LET id == NewId(h)
         IN [heap |-> (id :> NewFigure(t)) @@ h, open |-> <<id>>, fig |-> id]
    ELSE [heap |-> h, open |-> o, fig |-> Last(o)]

\* pyplot.gca(): the current axes of the current figure, a new one when the
\* figure has none.
Gca(h, o, t) ==
    LET g == Gcf(h, o, t)
        f == g.heap[g.fig]
    IN IF f.axes = <<>>
       THEN [heap |-> [g.heap EXCEPT ![g.fig] =
                          [f EXCEPT !.axes = <<BlankAxes>>, !.cur = 1]],
             open |-> g.open, fig |-> g.fig, ax |-> 1]
       ELSE [heap |-> g.heap, open |-> g.open, fig |-> g.fig, ax |-> f.cur]

\* Whose figure a backend call of thread t lands on: the call's own, one of
\* another call in flight, or one an earlier call left behind (shown or not).
OnOf(f, t) ==
    IF f.owner = t THEN "own"
    ELSE IF f.owner # 0 THEN "other"
    ELSE IF f.shown THEN "shown" ELSE "abandoned"

AxesImshow(ax, X, cmap, aspect, extent) ==
    [ax EXCEPT !.hasImage = TRUE, !.image = X.data, !.cmap = cmap,
               !.aspect = aspect, !.extent = extent]

AxesGrid(ax, color, linewidth) == [ax EXCEPT !.grid = <<color, linewidth>>]

AxesSetTitle(ax, label) == [ax EXCEPT !.title = label]

AxesSetXticks(ax, ticks) == [ax EXCEPT !.xticks = ticks]

AxesSetYticks(ax, ticks) == [ax EXCEPT !.yticks = ticks]

NoAxs == [kind |-> "none", fig |-> 0, n |-> 0]

\* Figure objects stay alive while open or while a local still refers to them.
Referenced(ax) == {ax[u].fig : u \in {v \in AllThreads : ax[v].kind # "none"}}

Range(s) == {s[j] : j \in 1..Len(s)}

Collect(h, o, ax) ==
    [id \in (DOMAIN h) \cap (Range(o) \cup Referenced(ax)) |-> h[id]]

\* ---------------------------------------------------------------- control
InFlight == {u \in AllThreads : pc[u] # "idle"}

Entry(op, k, on, ok) == [op |-> op, k |-> k, on |-> on, ok |-> ok]

\* The statement ran: record its backend call and move on.
Advance(t, next, op, k, on) ==
    /\ pc' = [pc EXCEPT ![t] = next]
    /\ trace' = [trace EXCEPT ![t] = Append(@, Entry(op, k, on, TRUE))]
    /\ UNCHANGED err

\* The exception caught and the figure shown all the same.
RaiseCaught(t, e, op, k) ==
    /\ pc' = [pc EXCEPT ![t] =
                 IF fn[t] = "plot_image" THEN "pi_show" ELSE "pc_show"]
    /\ err' = [err EXCEPT ![t] = e]
    /\ trace' = [trace EXCEPT ![t] = Append(@, Entry(op, k, "none", FALSE))]

\* The statement raised: nothing catches, the exception leaves the function.
Raise(t, e, op, k) ==
    /\ pc' = [pc EXCEPT ![t] = "raised"]
    /\ err' = [err EXCEPT ![t] = e]
    /\ trace' = [trace EXCEPT ![t] = Append(@, Entry(op, k, "none", FALSE))]

\* Room for the figure a new call may open.
Room == Len(open) + Cardinality(InFlight) < MaxFigs

\* Entry under a lock: a caller waits while another call is in flight.
EnterLocked(t, f, a, first) ==
    /\ pc[t] = "idle"
    /\ InFlight = {}
    /\ Room
    /\ pc' = [pc EXCEPT ![t] = first]
    /\ fn' = [fn EXCEPT ![t] = f]
    /\ arg' = [arg EXCEPT ![t] = a]
    /\ arg0' = [arg0 EXCEPT ![t] = a]
    /\ UNCHANGED <<heap, open, axs, iter, err, trace>>

\* A caller enters f with array a: the functions take no lock and wait for
\* nothing.
Enter(t, f, a, first) ==
    /\ pc[t] = "idle"
    /\ Room
    /\ pc' = [pc EXCEPT ![t] = first]
    /\ fn' = [fn EXCEPT ![t] = f]
    /\ arg' = [arg EXCEPT ![t] = a]
    /\ arg0' = [arg0 EXCEPT ![t] = a]
    /\ UNCHANGED <<heap, open, axs, iter, err, trace>>

\* ---------------------------------------------------------------- plot_image
call_plot_image(t) == \E a \in ImageArgs : Enter(t, "plot_image", a, "pi_imshow")

PI_extent(image) == <<0, ShapeAt(image, 1), 0, ShapeAt(image, 0)>>

PI_imshow(ax, image) == AxesImshow(ax, image, "gray", "equal", PI_extent(image))

PI_grid(ax) == AxesGrid(ax, "red", 1)

\* Off by one: the last boundary gets no tick.
PI_xticks_short(image) == PyRange(0, ShapeAt(image, 1))

PI_xticks(image) == PyRange(0, ShapeAt(image, 1) + 1)

PI_yticks(image) == PyRange(0, ShapeAt(image, 0) + 1)

\* The image scaled where it lies, instead of in a copy.
ScaledInPlace(a) ==
    IF Len(a.shape) = 2
    THEN [a EXCEPT !.data = [r \in DOMAIN a.data |->
                                [c \in DOMAIN a.data[r] |-> a.data[r][c] % 2]]]
    ELSE a

\* plt.imshow(image, cmap="gray", aspect="equal", extent=[...]); the array
\* after the statement is `after`.
plot_image_imshow_leaving(t, after) ==
    /\ pc[t] = "pi_imshow"
    /\ arg' = [arg EXCEPT ![t] = after]
    /\ IF ~HasDim(arg[t], 1)
       THEN Raise(t, "IndexError", "imshow", 0) /\ UNCHANGED <<heap, open>>
       ELSE LET g == Gca(heap, open, t)
            IN /\ heap' = [g.heap EXCEPT ![g.fig].axes[g.ax] =
                              PI_imshow(@, arg[t])]
               /\ open' = g.open
               /\ Advance(t, "pi_grid", "imshow", 0, OnOf(g.heap[g.fig], t))
    /\ UNCHANGED <<fn, arg0, axs, iter>>

plot_image_imshow_in_place(t) ==
    plot_image_imshow_leaving(t, ScaledInPlace(arg[t]))

plot_image_imshow(t) == plot_image_imshow_leaving(t, arg[t])

plot_image_grid(t) ==
    /\ pc[t] = "pi_grid"
    /\ LET g == Gca(heap, open, t)
       IN /\ heap' = [g.heap EXCEPT ![g.fig].axes[g.ax] = PI_grid(@)]
          /\ open' = g.open
          /\ Advance(t, "pi_xticks", "grid", 0, OnOf(g.heap[g.fig], t))
    /\ UNCHANGED <<fn, arg, arg0, axs, iter>>

plot_image_xticks(t) ==
    /\ pc[t] = "pi_xticks"
    /\ LET g == Gca(heap, open, t)
       IN /\ heap' = [g.heap EXCEPT ![g.fig].axes[g.ax] =
                         AxesSetXticks(@, PI_xticks(arg[t]))]
          /\ open' = g.open
          /\ Advance(t, "pi_yticks", "xticks", 0, OnOf(g.heap[g.fig], t))
    /\ UNCHANGED <<fn, arg, arg0, axs, iter>>

plot_image_yticks(t) ==
    /\ pc[t] = "pi_yticks"
    /\ LET g == Gca(heap, open, t)
       IN /\ heap' = [g.heap EXCEPT ![g.fig].axes[g.ax] =
                         AxesSetYticks(@, PI_yticks(arg[t]))]
          /\ open' = g.open
          /\ Advance(t, "pi_layout", "yticks", 0, OnOf(g.heap[g.fig], t))
    /\ UNCHANGED <<fn, arg, arg0, axs, iter>>

\* plt.tight_layout(): gcf().tight_layout()
TightLayout(t, next) ==
    LET g == Gcf(heap, open, t)
    IN /\ heap' = [g.heap EXCEPT ![g.fig].tight = TRUE]
       /\ open' = g.open
       /\ Advance(t, next, "tight_layout", 0, OnOf(g.heap[g.fig], t))

\* plt.show(): presents every open figure.  A blocking show returns once the
\* user has closed the windows, which destroys the figures; a non-blocking one
\* (interactive mode, a non-GUI backend) leaves them open and current.
Show(t, blocking) ==
    LET on == IF open = <<>> THEN "none" ELSE OnOf(heap[Last(open)], t)
        h == [id \in DOMAIN heap |->
                 IF id \in Range(open) THEN [heap[id] EXCEPT !.shown = TRUE]
                 ELSE heap[id]]
    IN /\ open' = IF blocking THEN <<>> ELSE open
       /\ heap' = IF blocking THEN Collect(h, <<>>, axs) ELSE h
       /\ Advance(t, "returned", "show", 0, on)

plot_image_tight_layout(t) ==
    /\ pc[t] = "pi_layout"
    /\ TightLayout(t, "pi_show")
    /\ UNCHANGED <<fn, arg, arg0, axs, iter>>

plot_image_show(t) ==
    /\ pc[t] = "pi_show"
    /\ \/ Show(t, TRUE)
       \/ Show(t, FALSE)
    /\ UNCHANGED <<fn, arg, arg0, axs, iter>>

\* ---------------------------------------------------------------- plot_channels
call_plot_channels(t) ==
    \E a \in ChannelArgs : Enter(t, "plot_channels", a, "pc_subplots")

\* The wrong axis: the row count of a channel instead of the channel count.
SubplotsNcols_rows(channels) ==
    IF HasDim(channels, 1) THEN ShapeAt(channels, 1) ELSE 0

\* The column count handed to plt.subplots(1, channels.shape[0]).
SubplotsNcols(channels) == ShapeAt(channels, 0)

\* What fig.subplots(1, ncols) hands back with the default squeeze=True: the
\* one Axes object itself for a single subplot, an array of them otherwise.
Squeeze(fig, ncols) ==
    [kind |-> IF ncols = 1 THEN "axes" ELSE "array", fig |-> fig, n |-> ncols]

\* fig, axs = plt.subplots(1, channels.shape[0]): always a new figure, made
\* current; the grid refuses a column count that is not positive.
plot_channels_subplots(t) ==
    /\ pc[t] = "pc_subplots"
    /\ LET ncols == SubplotsNcols(arg[t])
           id == NewId(heap)
           f == NewFigure(t)
       IN IF ncols <= 0
          THEN /\ heap' = (id :> f) @@ heap
               /\ open' = Append(open, id)
               /\ Raise(t, "ValueError", "subplots", 0)
               /\ UNCHANGED axs
          ELSE /\ heap' = (id :> [f EXCEPT !.axes = [j \in 1..ncols |-> BlankAxes],
                                           !.cur = ncols]) @@ heap
               /\ open' = Append(open, id)
               /\ axs' = [axs EXCEPT ![t] = Squeeze(id, ncols)]
               /\ Advance(t, "pc_for", "subplots", 0, "own")
    /\ UNCHANGED <<fn, arg, arg0, iter>>

\* zip(channels, axs, range(channels.shape[0])) takes an iterator of each
\* argument; a single Axes object has none.
plot_channels_for(t) ==
    /\ pc[t] = "pc_for"
    /\ IF axs[t].kind # "array"
       THEN Raise(t, "TypeError", "zip", 0)
       ELSE /\ pc' = [pc EXCEPT ![t] = "pc_next"]
            /\ UNCHANGED <<err, trace>>
    /\ UNCHANGED <<heap, open, fn, arg, arg0, axs, iter>>

\* A range one short: the last channel is never reached.
ZipLen_short(channels, ax) ==
    Min(Min(Len(channels.data), ax.n),
        Len(PyRange(0, ShapeAt(channels, 0) - 1)))

\* Items the zip yields: it stops with the shortest of its three arguments.
ZipLen(channels, ax) ==
    Min(Min(Len(channels.data), ax.n), Len(PyRange(0, ShapeAt(channels, 0))))

\* The loop head: the next (channel, ax, i), or the end of the loop.
plot_channels_next(t) ==
    /\ pc[t] = "pc_next"
    /\ IF iter[t] < ZipLen(arg[t], axs[t])
       THEN /\ iter' = [iter EXCEPT ![t] = @ + 1]
            /\ pc' = [pc EXCEPT ![t] = "pc_imshow"]
       ELSE /\ pc' = [pc EXCEPT ![t] = "pc_layout"]
            /\ UNCHANGED iter
    /\ UNCHANGED <<heap, open, fn, arg, arg0, axs, err, trace>>

\* The loop variables of the iteration in progress.
LoopChannel(t) == Item(arg[t], iter[t] - 1)

LoopAx(t) == iter[t]

LoopI(t) == PyRange(0, ShapeAt(arg[t], 0))[iter[t]]

PC_extent(channel) == <<0, ShapeAt(channel, 1), 0, ShapeAt(channel, 0)>>

PC_imshow(ax, channel) ==
    AxesImshow(ax, channel, "gray", "equal", PC_extent(channel))

PC_grid(ax) == AxesGrid(ax, "red", 1)

PC_title(i) == "Channel " \o ToString(i)

\* The axes swapped: x ticks counted from the rows.
PC_xticks_rows(channel) == PyRange(0, ShapeAt(channel, 0) + 1)

PC_xticks(channel) == PyRange(0, ShapeAt(channel, 1) + 1)

PC_yticks(channel) == PyRange(0, ShapeAt(channel, 0) + 1)

\* ax.imshow(channel, cmap="gray", aspect="equal", extent=[...]); the stack
\* after the statement is `after`.
plot_channels_imshow_leaving(t, after) ==
    /\ pc[t] = "pc_imshow"
    /\ arg' = [arg EXCEPT ![t] = after]
    /\ IF ~HasDim(LoopChannel(t), 1)
       THEN Raise(t, "IndexError", "imshow", LoopI(t)) /\ UNCHANGED heap
       ELSE /\ heap' = [heap EXCEPT ![axs[t].fig].axes[LoopAx(t)] =
                           PC_imshow(@, LoopChannel(t))]
            /\ Advance(t, "pc_grid", "imshow", LoopI(t),
                       OnOf(heap[axs[t].fig], t))
    /\ UNCHANGED <<open, fn, arg0, axs, iter>>

plot_channels_imshow(t) == plot_channels_imshow_leaving(t, arg[t])

plot_channels_grid(t) ==
    /\ pc[t] = "pc_grid"
    /\ heap' = [heap EXCEPT ![axs[t].fig].axes[LoopAx(t)] = PC_grid(@)]
    /\ Advance(t, "pc_title", "grid", LoopI(t), OnOf(heap[axs[t].fig], t))
    /\ UNCHANGED <<open, fn, arg, arg0, axs, iter>>

plot_channels_set_title(t) ==
    /\ pc[t] = "pc_title"
    /\ heap' = [heap EXCEPT ![axs[t].fig].axes[LoopAx(t)] =
                   AxesSetTitle(@, PC_title(LoopI(t)))]
    /\ Advance(t, "pc_xticks", "set_title", LoopI(t), OnOf(heap[axs[t].fig], t))
    /\ UNCHANGED <<open, fn, arg, arg0, axs, iter>>

plot_channels_set_xticks(t) ==
    /\ pc[t] = "pc_xticks"
    /\ heap' = [heap EXCEPT ![axs[t].fig].axes[LoopAx(t)] =
                   AxesSetXticks(@, PC_xticks(LoopChannel(t)))]
    /\ Advance(t, "pc_yticks", "xticks", LoopI(t), OnOf(heap[axs[t].fig], t))
    /\ UNCHANGED <<open, fn, arg, arg0, axs, iter>>

plot_channels_set_yticks(t) ==
    /\ pc[t] = "pc_yticks"
    /\ heap' = [heap EXCEPT ![axs[t].fig].axes[LoopAx(t)] =
                   AxesSetYticks(@, PC_yticks(LoopChannel(t)))]
    /\ Advance(t, "pc_next", "yticks", LoopI(t), OnOf(heap[axs[t].fig], t))
    /\ UNCHANGED <<open, fn, arg, arg0, axs, iter>>

plot_channels_tight_layout(t) ==
    /\ pc[t] = "pc_layout"
    /\ TightLayout(t, "pc_show")
    /\ UNCHANGED <<fn, arg, arg0, axs, iter>>

plot_channels_show(t) ==
    /\ pc[t] = "pc_show"
    /\ \/ Show(t, TRUE)
       \/ Show(t, FALSE)
    /\ UNCHANGED <<fn, arg, arg0, axs, iter>>

\* ---------------------------------------------------------------- return
\* Control is back with the caller: the locals are gone, the figures the call
\* made are an earlier call's from now on.
Return(t) ==
    /\ pc[t] \in {"returned", "raised"}
    /\ pc' = [pc EXCEPT ![t] = "idle"]
    /\ fn' = [fn EXCEPT ![t] = "none"]
    /\ arg' = [arg EXCEPT ![t] = NoArray]
    /\ arg0' = [arg0 EXCEPT ![t] = NoArray]
    /\ axs' = [axs EXCEPT ![t] = NoAxs]
    /\ iter' = [iter EXCEPT ![t] = 0]
    /\ err' = [err EXCEPT ![t] = "none"]
    /\ trace' = [trace EXCEPT ![t] = <<>>]
    /\ heap' = Collect([id \in DOMAIN heap |->
                           IF heap[id].owner = t
                           THEN [heap[id] EXCEPT !.owner = 0] ELSE heap[id]],
                       open, axs')
    /\ UNCHANGED open

\* ---------------------------------------------------------------- system
Init ==
    /\ heap = <<>>
    /\ open = <<>>
    /\ pc = [t \in AllThreads |-> "idle"]
    /\ fn = [t \in AllThreads |-> "none"]
    /\ arg = [t \in AllThreads |-> NoArray]
    /\ arg0 = [t \in AllThreads |-> NoArray]
    /\ axs = [t \in AllThreads |-> NoAxs]
    /\ iter = [t \in AllThreads |-> 0]
    /\ err = [t \in AllThreads |-> "none"]
    /\ trace = [t \in AllThreads |-> <<>>]

plot_image(t) ==
    \/ call_plot_image(t)
    \/ plot_image_imshow(t)
    \/ plot_image_grid(t)
    \/ plot_image_xticks(t)
    \/ plot_image_yticks(t)
    \/ plot_image_tight_layout(t)
    \/ plot_image_show(t)

plot_channels(t) ==
    \/ call_plot_channels(t)
    \/ plot_channels_subplots(t)
    \/ plot_channels_for(t)
    \/ plot_channels_next(t)
    \/ plot_channels_imshow(t)
    \/ plot_channels_grid(t)
    \/ plot_channels_set_title(t)
    \/ plot_channels_set_xticks(t)
    \/ plot_channels_set_yticks(t)
    \/ plot_channels_tight_layout(t)
    \/ plot_channels_show(t)

Step(t) == plot_image(t) \/ plot_channels(t) \/ Return(t)

\* A backend call fails for a reason of the environment (no display surface,
\* a broken backend): the exception leaves the function like any other.
BackendOp ==
    [pi_imshow |-> "imshow", pi_grid |-> "grid", pi_xticks |-> "xticks",
     pi_yticks |-> "yticks", pi_layout |-> "tight_layout", pi_show |-> "show",
     pc_subplots |-> "subplots", pc_imshow |-> "imshow", pc_grid |-> "grid",
     pc_title |-> "set_title", pc_xticks |-> "xticks", pc_yticks |-> "yticks",
     pc_layout |-> "tight_layout", pc_show |-> "show"]

BackendFault(t) ==
    /\ pc[t] \in DOMAIN BackendOp
    /\ Raise(t, "BackendError", BackendOp[pc[t]], 0)
    /\ UNCHANGED <<heap, open, fn, arg, arg0, axs, iter>>

\* One caller, one call at a time, a backend that works.
Next == Step(1)

Spec == Init /\ [][Next]_vars

\* One caller, a backend that may fail at any call.
NextFault == Step(1) \/ BackendFault(1)

SpecFault == Init /\ [][NextFault]_vars

\* Two threads calling with no coordination: thread 1 calls either function,
\* thread 2 calls plot_image.
NextConc == Step(1) \/ plot_image(2) \/ Return(2)

SpecConc == Init /\ [][NextConc]_vars

\* ---------------------------------------------------------------- properties
Calling(t, f) == fn[t] = f /\ pc[t] # "idle"

Running(t) == pc[t] \notin {"idle", "returned", "raised"}

\* The axes pyplot calls land on right now.
CurrentAxes == LET f == heap[Last(open)] IN f.axes[f.cur]

\* The integers 0..n, in order.
UpTo(n) == [j \in 1..(n + 1) |-> j - 1]

\* C1: for every image of shape (R, C), R >= 1 and C >= 1, plot_image raises
\* nothing and always has a next step until it returns, and once it has set
\* the ticks they are exactly 0..C on the x axis and 0..R on the y axis (C+1
\* and R+1 of them); a 1x1 image gets <<0, 1>> on both.
C1_TicksExact ==
    \A t \in AllThreads :
        (Calling(t, "plot_image") /\ Len(arg0[t].shape) = 2) =>
            LET R == arg0[t].shape[1]
                C == arg0[t].shape[2]
            IN /\ pc[t] # "raised"
               /\ Running(t) => ENABLED plot_image(t)
               /\ (pc[t] \in {"pi_layout", "pi_show", "returned"} /\ open # <<>>) =>
                     /\ CurrentAxes.xticks = UpTo(C)
                     /\ CurrentAxes.yticks = UpTo(R)
                     /\ Len(CurrentAxes.xticks) = C + 1
                     /\ Len(CurrentAxes.yticks) = R + 1
                     /\ (R = 1 /\ C = 1) =>
                           /\ CurrentAxes.xticks = <<0, 1>>
                           /\ CurrentAxes.yticks = <<0, 1>>

\* A 1x1 image went through plot_image, which returned with ticks 0, 1.
C1_Witness ==
    /\ pc[1] = "returned"
    /\ fn[1] = "plot_image"
    /\ arg0[1].shape = <<1, 1>>
    /\ open # <<>>
    /\ CurrentAxes.xticks = <<0, 1>>
    /\ CurrentAxes.yticks = <<0, 1>>

\* The figure plot_channels made, through its local axs.
OwnAxes(t) == heap[axs[t].fig].axes

\* C2: for every stack of shape (N, R, C) with N >= 1, plot_channels raises
\* nothing, and once its loop is over the figure it made has exactly N
\* subplots, subplot i showing channel i under the title "Channel i", for
\* i = 0..N-1, none untitled and no channel skipped.
C2_EveryChannelTitled ==
    \A t \in AllThreads :
        (Calling(t, "plot_channels") /\ Len(arg0[t].shape) = 3
            /\ arg0[t].shape[1] >= 1) =>
            LET N == arg0[t].shape[1]
            IN /\ pc[t] # "raised"
               /\ pc[t] \in {"pc_layout", "pc_show", "returned"} =>
                     /\ Len(OwnAxes(t)) = N
                     /\ \A k \in 1..N :
                           /\ OwnAxes(t)[k].hasImage
                           /\ OwnAxes(t)[k].image = arg0[t].data[k]
                           /\ OwnAxes(t)[k].title = "Channel " \o ToString(k - 1)

\* C3: plot_channels on a stack of one channel raises no iteration error.
C3_SingleChannelNoIterationError ==
    \A t \in AllThreads :
        (Calling(t, "plot_channels") /\ Len(arg0[t].shape) = 3
            /\ arg0[t].shape[1] = 1) => err[t] # "TypeError"

\* C4: plot_channels on an empty stack (N = 0) never gets past the creation
\* of the subplots: it renders no channel, shows nothing, and ends raising the
\* backend's ValueError as the one thing it did.
C4_EmptyStackFailsFast ==
    \A t \in AllThreads :
        (Calling(t, "plot_channels") /\ arg0[t].shape[1] = 0) =>
            /\ pc[t] \in {"pc_subplots", "raised"}
            /\ \A j \in 1..Len(trace[t]) :
                  ~(trace[t][j].ok /\ trace[t][j].op \in {"imshow", "show"})
            /\ pc[t] = "raised" =>
                  /\ err[t] = "ValueError"
                  /\ Len(trace[t]) = 1
                  /\ trace[t][1].op = "subplots"

\* An empty stack of 2x1 channels: the call ended in ValueError.
C4_Witness ==
    /\ pc[1] = "raised"
    /\ fn[1] = "plot_channels"
    /\ arg0[1].shape = <<0, 2, 1>>
    /\ err[1] = "ValueError"

\* C5: at every point of a call of plot_image or plot_channels, and when it
\* has returned or raised, the array passed in equals what it was at entry.
C5_InputUntouched == \A t \in AllThreads : arg[t] = arg0[t]

\* A call that failed after imshow had read the image.
C5_Witness ==
    /\ pc[1] = "raised"
    /\ fn[1] = "plot_image"
    /\ Len(trace[1]) > 1
    /\ trace[1][1].op = "imshow"
    /\ trace[1][1].ok
    /\ arg[1] = arg0[1]

\* What plot_image configures on a blank axes for an image.
PlotImageConfig(image) ==
    AxesSetYticks(
        AxesSetXticks(PI_grid(PI_imshow(BlankAxes, image)), PI_xticks(image)),
        PI_yticks(image))

\* Channels whose loop body has run to its end.
ChannelsDone(t) ==
    IF pc[t] \in {"pc_next", "pc_layout", "pc_show", "returned"} THEN iter[t]
    ELSE IF iter[t] > 0 THEN iter[t] - 1 ELSE 0

LoopOps == <<"imshow", "grid", "set_title", "xticks", "yticks">>

ExpectedCalls(t) ==
    IF fn[t] = "plot_image"
    THEN << <<"imshow", 0>>, <<"grid", 0>>, <<"xticks", 0>>, <<"yticks", 0>>,
            <<"tight_layout", 0>>, <<"show", 0>> >>
    ELSE LET N == arg0[t].shape[1]
         IN << <<"subplots", 0>> >>
            \o [j \in 1..(5 * N) |-> <<LoopOps[((j - 1) % 5) + 1], (j - 1) \div 5>>]
            \o << <<"tight_layout", 0>>, <<"show", 0>> >>

\* C7: the backend calls of a call are made in the order image, grid, ticks
\* (per channel, channel by channel, with its title, in plot_channels), then
\* layout compaction once, then show once; a call that returns has made all
\* of them, so compaction follows the last channel and show is the last call.
C7_LayoutThenShowLast ==
    \A t \in AllThreads :
        pc[t] # "idle" =>
            /\ \A j \in 1..Len(trace[t]) :
                  trace[t][j].ok =>
                      /\ j <= Len(ExpectedCalls(t))
                      /\ <<trace[t][j].op, trace[t][j].k>> = ExpectedCalls(t)[j]
            /\ pc[t] = "returned" =>
                  /\ Len(trace[t]) = Len(ExpectedCalls(t))
                  /\ trace[t][Len(trace[t])].op = "show"
                  /\ trace[t][Len(trace[t]) - 1].op = "tight_layout"

\* A two-channel call returned: 13 backend calls, the last two being
\* tight_layout and show.
C7_Witness ==
    /\ pc[1] = "returned"
    /\ fn[1] = "plot_channels"
    /\ arg0[1].shape[1] = 2
    /\ Len(trace[1]) = 13
    /\ trace[1][11].op = "yticks"
    /\ trace[1][11].k = 1
    /\ trace[1][12].op = "tight_layout"
    /\ trace[1][13].op = "show"

\* C8: an error stops the call where it was raised: the failing backend call
\* is the last the call made, no show succeeded before it, the call is left
\* raising that error, and from there the only step is the caller getting it.
C8_Stopped ==
    \A t \in AllThreads :
        /\ (err[t] # "none") <=> (pc[t] = "raised")
        /\ \A j \in 1..Len(trace[t]) :
              ~trace[t][j].ok => (j = Len(trace[t]) /\ pc[t] = "raised")
        /\ pc[t] = "raised" =>
              /\ Len(trace[t]) >= 1
              /\ ~trace[t][Len(trace[t])].ok
              /\ \A j \in 1..Len(trace[t]) : trace[t][j].op = "show" => ~trace[t][j].ok

C8_NothingAfter ==
    \A t \in AllThreads :
        pc[t] = "raised" =>
            \/ UNCHANGED <<pc[t], err[t], trace[t], arg[t]>>
            \/ pc'[t] = "idle"

C8_FirstErrorAborts == []C8_Stopped /\ [][C8_NothingAfter]_vars

\* The backend failed at ax.grid of the second channel.
C8_Witness ==
    /\ pc[1] = "raised"
    /\ fn[1] = "plot_channels"
    /\ err[1] = "BackendError"
    /\ Len(trace[1]) = 8
    /\ trace[1][8].op = "grid"

\* C9: a call of plot_image never draws into a figure an earlier call left
\* open (stated here for the figures an earlier call completed and showed).
C9_PlotImageOwnFigure ==
    \A t \in AllThreads :
        Calling(t, "plot_image") =>
            \A j \in 1..Len(trace[t]) : trace[t][j].on # "shown"

\* C10: no call ever waits for another: an idle caller can enter plot_image
\* whatever the other thread is doing, and a call in flight always has its
\* next step.
C10_NoLock ==
    /\ \A t \in AllThreads :
          (pc[t] = "idle" /\ Room) => ENABLED call_plot_image(t)
    /\ (pc[1] = "idle" /\ Room) => ENABLED call_plot_channels(1)
    /\ Running(1) => ENABLED Step(1)
    /\ Running(2) => ENABLED plot_image(2)

\* A step of one call in flight landed on the figure of the other.
C10_Witness ==
    \E t \in AllThreads :
        /\ Calling(t, "plot_image")
        /\ \E u \in AllThreads \ {t} : pc[u] # "idle"
        /\ \E j \in 1..Len(trace[t]) : trace[t][j].ok /\ trace[t][j].on = "other"

=============================================================================
